---------------------------- MODULE Spec2Model ----------------------------
(***************************************************************************)
(* log4mongo/handlers.py: BufferedMongoHandler.  The handler's buffer, its *)
(* lock, the periodic flush thread and destroy, with the storage          *)
(* collaborator (insert_many / insert_one / close) free to fail; and the  *)
(* unbuffered MongoHandler.emit.                                           *)
(*                                                                         *)
(* Threads: the emitters call emit, Timer runs call_repeatedly's loop,     *)
(* Main calls destroy (explicitly and through the atexit hook).            *)
(***************************************************************************)
EXTENDS Naturals, Sequences, FiniteSets

\* ---- bounds of the model ----------------------------------------------
NumEmitters == 2
MaxRecords == 2
MaxDestroy == 2
BufferSize == 2
MaxFailures == 2

\* a capacity no run of MaxRecords records reaches (buffer_size=100)
LargeBufferSize == BufferSize + MaxRecords

\* thread identities: the emitting threads, the thread of call_repeatedly,
\* the thread that calls destroy; Free is the owner of an unheld lock
Emitters == {<<"emitter", i>> : i \in 1..NumEmitters}
Timer == <<"timer", 0>>
Main == <<"main", 0>>
Free == <<"free", 0>>
Threads == Emitters \cup {Timer, Main}

\* logging's level numbers, by level name
LevelNo == [DEBUG |-> 10, INFO |-> 20, CRITICAL |-> 50]
LevelNames == DOMAIN LevelNo

\* buffer_early_flush_level=logging.CRITICAL
buffer_early_flush_level == LevelNo.CRITICAL

\* self.last_record = None
NoRecord == [msg |-> 0, levelno |-> 0, levelname |-> "NOTSET", thread |-> Free]

VARIABLES
    collection,      \* TRUE: self.collection is bound; FALSE: it is None
    fail_silently,   \* self.fail_silently
    timer_stopper,   \* TRUE: the periodic thread was started (self._timer_stopper set)
    buffer_size,     \* self.buffer_size
    buffer,          \* self.buffer, a sequence of documents
    has_buffer,      \* FALSE between `del self.buffer` and `self.buffer = []`
    buffer_lock,     \* owner of self.buffer_lock, or Free
    last_record,     \* self.last_record
    stopped,         \* the threading.Event of call_repeatedly
    pc,              \* where each thread is
    record,          \* the record of the emit call each emitter is in
    idx,             \* position of the `for msg in self.buffer` loop
    exc,             \* the exception that ended each thread's latest call ("none": it returned)
    nrec,            \* number of records emitted so far
    ndestroy,        \* number of destroy calls so far
    calls            \* history of the calls made to storage, stdout and the stop event

vars == <<collection, fail_silently, timer_stopper, buffer_size, buffer, has_buffer, buffer_lock,
          last_record, stopped, pc, record, idx, exc, nrec, ndestroy, calls>>

config == <<collection, fail_silently, timer_stopper, buffer_size>>

\* ---- MongoFormatter.format --------------------------------------------
\* The document's keys are fixed by format; extras are the record attributes
\* outside DEFAULT_PROPERTIES, so no extra is ever named like a LogRecord
\* attribute.  Only the keys that tell documents apart are kept.
format(r) == [level |-> r.levelname, thread |-> r.thread, message |-> r.msg]

\* one call made to a collaborator
Call(op, by, docs, ok) == [op |-> op, by |-> by, docs |-> docs, ok |-> ok]

\* storage may fail any call, MaxFailures times in all
Failures == Cardinality({i \in 1..Len(calls) : ~calls[i].ok})
Outcomes == IF Failures < MaxFailures THEN BOOLEAN ELSE {TRUE}

\* ---- construction ------------------------------------------------------
\* a timer thread started whatever buffer_periodical_flush_timing is
TimerThread_Always(timing) == "wait"

\* if self.buffer_periodical_flush_timing: the timer thread is started and
\* waits; otherwise buffer_timer_thread stays None
TimerThread(timing) == IF timing THEN "wait" ELSE "none"

\* _connect: a connection failure leaves self.collection None when
\* fail_silently is set and is raised out of __init__ otherwise
Connected == {c \in [collection : BOOLEAN, fail_silently : BOOLEAN] :
                 c.collection \/ c.fail_silently}

\* a BufferedMongoHandler: fail_silently keeps its default (False) unless the
\* collection is unbound; the buffered handler reads it nowhere after _connect
Init ==
    /\ \E c \in Connected : /\ collection = c.collection
                             /\ fail_silently = c.fail_silently
                             /\ c.fail_silently = ~c.collection
    /\ timer_stopper \in BOOLEAN
    /\ buffer_size \in {BufferSize, LargeBufferSize}
    /\ buffer = <<>>
    /\ has_buffer = TRUE
    /\ buffer_lock = Free
    /\ last_record = NoRecord
    /\ stopped = FALSE
    /\ pc = [t \in Threads |->
               IF t = Timer THEN TimerThread(timer_stopper)
               ELSE "idle"]
    /\ record = [t \in Emitters |-> NoRecord]
    /\ idx = 0
    /\ exc = [t \in Threads |-> "none"]
    /\ nrec = 0
    /\ ndestroy = 0
    /\ calls = <<>>

\* ---- how a call of flush_to_mongo ends for its caller -------------------
\* emit returns to the application, loop goes back to stopped.wait, destroy
\* goes on to self.close()
AfterFlush(t) == IF t = Main THEN "close" ELSE IF t = Timer THEN "wait" ELSE "idle"

\* an exception leaves emit / destroy; it ends the timer thread
AfterRaise(t) == IF t = Timer THEN "dead" ELSE "idle"

\* the record of emit goes out of scope when emit ends
Forget(t) == IF t \in Emitters THEN [record EXCEPT ![t] = NoRecord] ELSE record

\* ---- BufferedMongoHandler.emit ------------------------------------------
\* with self.buffer_lock: self.last_record = record; self.buffer.append(...)
EmitAppend(t, lvl) ==
    /\ pc[t] = "idle"
    /\ nrec < MaxRecords
    /\ buffer_lock = Free
    /\ LET r == [msg |-> nrec + 1, levelno |-> LevelNo[lvl], levelname |-> lvl,
                 thread |-> t]
       IN /\ last_record' = r
          /\ buffer' = Append(buffer, format(r))
          /\ record' = [record EXCEPT ![t] = r]
    /\ nrec' = nrec + 1
    /\ pc' = [pc EXCEPT ![t] = "trigger"]
    /\ exc' = [exc EXCEPT ![t] = "none"]
    /\ UNCHANGED <<config, has_buffer, buffer_lock, stopped, idx, ndestroy, calls>>

\* the flush condition, were the capacity test `>`
ShouldFlush_OverCapacity(len, levelno) ==
    len > buffer_size \/ levelno >= buffer_early_flush_level

\* the flush condition, were the capacity test one short
ShouldFlush_OneShort(len, levelno) ==
    len + 1 >= buffer_size \/ levelno >= buffer_early_flush_level

\* the flush condition, were the level test `>`
ShouldFlush_AboveLevel(len, levelno) ==
    len >= buffer_size \/ levelno > buffer_early_flush_level

\* the flush condition, were the capacity not tested
ShouldFlush_SeverityOnly(len, levelno) ==
    levelno >= buffer_early_flush_level

\* the flush condition of emit
ShouldFlush(len, levelno) ==
    len >= buffer_size \/ levelno >= buffer_early_flush_level

\* if len(self.buffer) >= self.buffer_size or record.levelno >= ...: (no lock held)
EmitTrigger(t) ==
    /\ pc[t] = "trigger"
    /\ IF ~has_buffer
       THEN \* AttributeError: 'BufferedMongoHandler' object has no attribute 'buffer'
            /\ pc' = [pc EXCEPT ![t] = AfterRaise(t)]
            /\ exc' = [exc EXCEPT ![t] = "AttributeError"]
            /\ record' = Forget(t)
       ELSE IF ShouldFlush(Len(buffer), record[t].levelno)
       THEN \* self.flush_to_mongo() is called
            /\ pc' = [pc EXCEPT ![t] = "flush"]
            /\ UNCHANGED <<exc, record>>
       ELSE /\ pc' = [pc EXCEPT ![t] = "idle"]
            /\ record' = Forget(t)
            /\ exc' = exc
    /\ UNCHANGED <<config, buffer, has_buffer, buffer_lock, last_record, stopped,
                   idx, nrec, ndestroy, calls>>

\* ---- BufferedMongoHandler.flush_to_mongo --------------------------------
\* the flush, were len(self.buffer) > 0 not tested: an empty batch is written,
\* the for loop of the fallback has nothing to go through
FlushBulk_NoEmptinessTest(t, ok) ==
    /\ pc[t] = "flush"
    /\ buffer_lock = Free
    /\ IF collection
       THEN /\ buffer_lock' = t
            /\ calls' = Append(calls, Call("insert_many", t, buffer, ok))
            /\ pc' = [pc EXCEPT ![t] = IF ok \/ buffer = <<>> THEN "del"
                                                              ELSE "insert_one"]
            /\ idx' = IF ok \/ buffer = <<>> THEN idx ELSE 1
            /\ record' = record
       ELSE /\ ok
            /\ pc' = [pc EXCEPT ![t] = AfterFlush(t)]
            /\ record' = Forget(t)
            /\ UNCHANGED <<buffer_lock, calls, idx>>
    /\ UNCHANGED <<config, buffer, has_buffer, last_record, stopped, exc, nrec,
                   ndestroy>>

\* with self.buffer_lock: if self.collection is not None and len(self.buffer) > 0:
\*     try: self.collection.insert_many(self.buffer)
FlushBulk(t, ok) ==
    /\ pc[t] = "flush"
    /\ buffer_lock = Free
    /\ IF collection /\ Len(buffer) > 0
       THEN /\ buffer_lock' = t
            /\ calls' = Append(calls, Call("insert_many", t, buffer, ok))
            /\ pc' = [pc EXCEPT ![t] = IF ok THEN "del" ELSE "insert_one"]
            /\ idx' = IF ok THEN idx ELSE 1
            /\ record' = record
       ELSE /\ ok
            /\ pc' = [pc EXCEPT ![t] = AfterFlush(t)]
            /\ record' = Forget(t)
            /\ UNCHANGED <<buffer_lock, calls, idx>>
    /\ UNCHANGED <<config, buffer, has_buffer, last_record, stopped, exc, nrec,
                   ndestroy>>

\* msg['levelname'] of the except branch: the keys of a document
HasKey(msg, key) == key \in DOMAIN msg

\* for msg in self.buffer: try: self.collection.insert_one(msg)
\*     except Exception as e2: if msg['levelname'] != 'DEBUG': print(...)
FlushItem(t, ok) ==
    /\ pc[t] = "insert_one"
    /\ buffer_lock = t
    /\ LET msg == buffer[idx]
           one == Call("insert_one", t, <<msg>>, ok)
           next == IF idx < Len(buffer) THEN "insert_one" ELSE "del"
       IN IF ok
          THEN /\ calls' = Append(calls, one)
               /\ pc' = [pc EXCEPT ![t] = next]
               /\ idx' = IF idx < Len(buffer) THEN idx + 1 ELSE 0
               /\ UNCHANGED <<buffer_lock, exc, record>>
          ELSE IF ~HasKey(msg, "levelname")
          THEN \* KeyError: 'levelname' leaves the handler, the loop, the with block
               /\ calls' = Append(calls, one)
               /\ pc' = [pc EXCEPT ![t] = AfterRaise(t)]
               /\ exc' = [exc EXCEPT ![t] = "KeyError"]
               /\ buffer_lock' = Free
               /\ idx' = 0
               /\ record' = Forget(t)
          ELSE /\ calls' = IF msg["levelname"] # "DEBUG"
                           THEN calls \o <<one, Call("print", t, <<msg>>, TRUE)>>
                           ELSE Append(calls, one)
               /\ pc' = [pc EXCEPT ![t] = next]
               /\ idx' = IF idx < Len(buffer) THEN idx + 1 ELSE 0
               /\ UNCHANGED <<buffer_lock, exc, record>>
    /\ UNCHANGED <<config, buffer, has_buffer, last_record, stopped, nrec, ndestroy>>

\* ---- BufferedMongoHandler.empty_buffer ----------------------------------
\* del self.buffer
EmptyDel(t) ==
    /\ pc[t] = "del"
    /\ buffer_lock = t
    /\ has_buffer' = FALSE
    /\ buffer' = <<>>
    /\ pc' = [pc EXCEPT ![t] = "assign"]
    /\ UNCHANGED <<config, buffer_lock, last_record, stopped, record, idx, exc, nrec,
                   ndestroy, calls>>

\* self.buffer = [] ; the with block of flush_to_mongo ends
EmptyAssign(t) ==
    /\ pc[t] = "assign"
    /\ buffer_lock = t
    /\ has_buffer' = TRUE
    /\ buffer' = <<>>
    /\ buffer_lock' = Free
    /\ pc' = [pc EXCEPT ![t] = AfterFlush(t)]
    /\ record' = Forget(t)
    /\ UNCHANGED <<config, last_record, stopped, idx, exc, nrec, ndestroy, calls>>

\* ---- call_repeatedly.loop -----------------------------------------------
\* the loop, were the result of stopped.wait not tested
TimerTick_IgnoresStop ==
    /\ pc[Timer] = "wait"
    /\ pc' = [pc EXCEPT ![Timer] = "flush"]
    /\ UNCHANGED <<config, buffer, has_buffer, buffer_lock, last_record, stopped,
                   record, idx, exc, nrec, ndestroy, calls>>

\* stopped.wait(interval) times out with the event unset: func(*args) is next
TimerTick ==
    /\ pc[Timer] = "wait"
    /\ ~stopped
    /\ pc' = [pc EXCEPT ![Timer] = "flush"]
    /\ UNCHANGED <<config, buffer, has_buffer, buffer_lock, last_record, stopped,
                   record, idx, exc, nrec, ndestroy, calls>>

\* stopped.wait(interval) returns True: the loop and the thread end
TimerExit ==
    /\ pc[Timer] = "wait"
    /\ stopped
    /\ pc' = [pc EXCEPT ![Timer] = "exited"]
    /\ UNCHANGED <<config, buffer, has_buffer, buffer_lock, last_record, stopped,
                   record, idx, exc, nrec, ndestroy, calls>>

\* ---- BufferedMongoHandler.destroy ---------------------------------------
\* destroy, were the final flush left out
DestroyStop_NoFlush ==
    /\ pc[Main] = "idle"
    /\ ndestroy < MaxDestroy
    /\ ndestroy' = ndestroy + 1
    /\ stopped' = (stopped \/ timer_stopper)
    /\ calls' = IF timer_stopper
                THEN calls \o <<Call("destroy", Main, <<>>, TRUE),
                                Call("set", Main, <<>>, TRUE)>>
                ELSE Append(calls, Call("destroy", Main, <<>>, TRUE))
    /\ pc' = [pc EXCEPT ![Main] = "close"]
    /\ exc' = [exc EXCEPT ![Main] = "none"]
    /\ UNCHANGED <<config, buffer, has_buffer, buffer_lock, last_record, record, idx,
                   nrec>>

\* if self._timer_stopper: self._timer_stopper() ; self.flush_to_mongo() is next
DestroyStop ==
    /\ pc[Main] = "idle"
    /\ ndestroy < MaxDestroy
    /\ ndestroy' = ndestroy + 1
    /\ stopped' = (stopped \/ timer_stopper)
    /\ calls' = IF timer_stopper
                THEN calls \o <<Call("destroy", Main, <<>>, TRUE),
                                Call("set", Main, <<>>, TRUE)>>
                ELSE Append(calls, Call("destroy", Main, <<>>, TRUE))
    /\ pc' = [pc EXCEPT ![Main] = "flush"]
    /\ exc' = [exc EXCEPT ![Main] = "none"]
    /\ UNCHANGED <<config, buffer, has_buffer, buffer_lock, last_record, record, idx,
                   nrec>>

\* MongoHandler.close: self.connection.close() ; destroy returns
Close ==
    /\ pc[Main] = "close"
    /\ calls' = Append(calls, Call("close", Main, <<>>, TRUE))
    /\ pc' = [pc EXCEPT ![Main] = "idle"]
    /\ UNCHANGED <<config, buffer, has_buffer, buffer_lock, last_record, stopped,
                   record, idx, exc, nrec, ndestroy>>

\* ---- the system ---------------------------------------------------------
Next ==
    \/ \E t \in Emitters, lvl \in LevelNames : EmitAppend(t, lvl)
    \/ \E t \in Emitters : EmitTrigger(t)
    \/ \E t \in Threads, ok \in Outcomes : FlushBulk(t, ok)
    \/ \E t \in Threads, ok \in Outcomes : FlushItem(t, ok)
    \/ \E t \in Threads : EmptyDel(t)
    \/ \E t \in Threads : EmptyAssign(t)
    \/ TimerTick
    \/ TimerExit
    \/ DestroyStop
    \/ Close

Spec == Init /\ [][Next]_vars

\* ---- scheduling ------------------------------------------------------------
\* the steps a thread takes by itself once it is inside a call: the rest of
\* emit, of flush_to_mongo and of destroy, and the loop of the timer thread
\* (the interval elapses, the storage calls return)
Run(t) ==
    \/ t \in Emitters /\ EmitTrigger(t)
    \/ \E ok \in Outcomes : FlushBulk(t, ok)
    \/ \E ok \in Outcomes : FlushItem(t, ok)
    \/ EmptyDel(t)
    \/ EmptyAssign(t)
    \/ t = Timer /\ (TimerTick \/ TimerExit)
    \/ t = Main /\ Close

\* every thread that can run is run
Fairness == \A t \in Threads : WF_vars(Run(t))

FairSpec == Spec /\ Fairness

\* ---- a handler in use: emits and periodic flushes, destroy not called ------
NextEmit ==
    \/ \E t \in Emitters, lvl \in LevelNames : EmitAppend(t, lvl)
    \/ \E t \in Emitters : EmitTrigger(t)
    \/ \E t \in Emitters \cup {Timer}, ok \in Outcomes : FlushBulk(t, ok)
    \/ \E t \in Emitters \cup {Timer}, ok \in Outcomes : FlushItem(t, ok)
    \/ \E t \in Emitters \cup {Timer} : EmptyDel(t)
    \/ \E t \in Emitters \cup {Timer} : EmptyAssign(t)
    \/ TimerTick

SpecEmit == Init /\ [][NextEmit]_vars

\* ---- shutdown of a quiet handler -----------------------------------------
\* destroy is called when no emit is running, and no emit is called after it
QuietEmitAppend(t, lvl) == ndestroy = 0 /\ EmitAppend(t, lvl)

QuietDestroyStop == (\A t \in Emitters : pc[t] = "idle") /\ DestroyStop

NextShutdown ==
    \/ \E t \in Emitters, lvl \in LevelNames : QuietEmitAppend(t, lvl)
    \/ \E t \in Emitters : EmitTrigger(t)
    \/ \E t \in Threads, ok \in Outcomes : FlushBulk(t, ok)
    \/ \E t \in Threads, ok \in Outcomes : FlushItem(t, ok)
    \/ \E t \in Threads : EmptyDel(t)
    \/ \E t \in Threads : EmptyAssign(t)
    \/ TimerTick
    \/ TimerExit
    \/ QuietDestroyStop
    \/ Close

SpecShutdown == Init /\ [][NextShutdown]_vars

\* ---- reading the history of calls -----------------------------------------
Range(seq) == {seq[k] : k \in DOMAIN seq}

StorageOps == {"insert_many", "insert_one"}

\* the calls that hand documents to storage; the bulk writes (one per draining flush)
Writes == {i \in DOMAIN calls : calls[i].op \in StorageOps}
BulkWrites == {i \in DOMAIN calls : calls[i].op = "insert_many"}

\* every document appended so far: still buffered, or handed to storage
Appended == Range(buffer) \cup UNION {Range(calls[i].docs) : i \in Writes}

BelowEarlyFlush(d) == LevelNo[d.level] < buffer_early_flush_level

\* the per-item writes of the flush whose bulk write is call i: the insert_one
\* calls of the same thread after i and before that thread's next bulk write
FallbackOf(i) ==
    LET by == calls[i].by
        mine(j) == /\ j > i
                   /\ calls[j].by = by
                   /\ calls[j].op = "insert_one"
                   /\ ~\E k \in BulkWrites : k > i /\ k < j /\ calls[k].by = by
    IN {j \in DOMAIN calls : mine(j)}

\* the flush that made bulk write i is over
FlushOver(i) ==
    \/ pc[calls[i].by] \notin {"insert_one", "del", "assign"}
    \/ \E k \in BulkWrites : k > i /\ calls[k].by = calls[i].by

\* the documents of bulk write i reached storage: in bulk, or each one by its own
Written(i) ==
    \/ calls[i].ok
    \/ \A d \in Range(calls[i].docs) :
          \E j \in FallbackOf(i) : calls[j].ok /\ calls[j].docs = <<d>>

\* the thread is inside the locked part of a flush that found documents to write
InFlush == {"insert_one", "del", "assign"}

\* ---- C1 --------------------------------------------------------------------
\* C1: a flush entered with a bound collection and a non-empty buffer leaves
\* the buffer empty when it ends, whatever the storage calls did.
C1_FlushLeavesBufferEmpty ==
    [][\A t \in Threads :
          (pc[t] \in InFlush /\ pc'[t] \notin InFlush)
              => (has_buffer' /\ buffer' = <<>>)]_vars

\* ---- C2 --------------------------------------------------------------------
\* C2: no failed storage write ends emit, flush_to_mongo or destroy with an
\* exception: every call returns normally.
C2_NoWriteFailurePropagates == \A t \in Threads : exc[t] # "KeyError"

\* ---- C3 --------------------------------------------------------------------
\* C3: delivery is at most once: with insert_many all-or-nothing, no document
\* is successfully inserted into storage more than once.
C3_AtMostOnce ==
    \A d \in Appended :
        Cardinality({i \in Writes : calls[i].ok /\ d \in Range(calls[i].docs)}) <= 1

\* ---- C4 --------------------------------------------------------------------
\* the emitters, as many as the capacity, have each emitted one record below
\* the early-flush level, every emit call has returned, destroy was not called
C4_AllEmitted ==
    /\ collection
    /\ ndestroy = 0
    /\ buffer_size = NumEmitters
    /\ nrec = NumEmitters
    /\ \A t \in Emitters : pc[t] = "idle" /\ exc[t] = "none"
    /\ \A t \in Emitters : \E d \in Appended : d.thread = t
    /\ \A d \in Appended : BelowEarlyFlush(d)

\* one flush wrote all N documents, each once, and the buffer is empty
C4_OneFlushCoversAll ==
    /\ \E i \in BulkWrites :
          /\ Len(calls[i].docs) = NumEmitters
          /\ {d.message : d \in Range(calls[i].docs)} = 1..NumEmitters
          /\ {d.thread : d \in Range(calls[i].docs)} = Emitters
          /\ Written(i)
    /\ has_buffer /\ buffer = <<>>

\* no periodic flush has written documents so far
NoTimerFlush == \A i \in BulkWrites : calls[i].by # Timer

\* C4 as stated: N threads emit once each with capacity N; once all emits
\* have returned, one flush has written all N documents and the buffer is empty.
C4_ConcurrentEmits == C4_AllEmitted => C4_OneFlushCoversAll

\* C4 amended: the same, when no periodic flush wrote documents in between.
C4_ConcurrentEmitsNoPeriodicFlush ==
    (C4_AllEmitted /\ NoTimerFlush) => C4_OneFlushCoversAll

C4_Witness ==
    /\ C4_AllEmitted
    /\ NoTimerFlush
    /\ C4_OneFlushCoversAll
    /\ Cardinality(BulkWrites) = 1

\* ---- C5 --------------------------------------------------------------------
\* one thread has appended buffer_size records below the early-flush level to
\* an empty buffer, its last emit has returned, destroy was not called
C5_NthEmitReturned ==
    /\ collection
    /\ ndestroy = 0
    /\ nrec = buffer_size
    /\ \A d \in Appended : BelowEarlyFlush(d)
    /\ \E t \in Emitters :
          /\ pc[t] = "idle" /\ exc[t] = "none"
          /\ \A d \in Appended : d.thread = t
          /\ \E d \in Appended : d.message = nrec

\* exactly one bulk write, carrying all N documents, and the buffer is empty
C5_ExactlyOneFlush ==
    /\ Cardinality(BulkWrites) = 1
    /\ \A i \in BulkWrites :
          {d.message : d \in Range(calls[i].docs)} = 1..buffer_size
    /\ has_buffer /\ buffer = <<>>

\* fewer than buffer_size records, all below the early-flush level, so far
C5_BeforeNth ==
    /\ collection
    /\ ndestroy = 0
    /\ nrec < buffer_size
    /\ \A d \in Appended : BelowEarlyFlush(d)

\* C5 as stated: the Nth append causes exactly one flush by the time the Nth
\* emit returns, none before it, and the buffer is empty after.
C5_CapacityTrigger ==
    /\ C5_NthEmitReturned => C5_ExactlyOneFlush
    /\ C5_BeforeNth => Writes = {}

\* C5 amended: the same, when no periodic flush wrote documents in between.
C5_CapacityTriggerNoPeriodicFlush ==
    /\ (C5_NthEmitReturned /\ NoTimerFlush) => C5_ExactlyOneFlush
    /\ (C5_BeforeNth /\ NoTimerFlush) => Writes = {}

C5_Witness ==
    /\ C5_NthEmitReturned
    /\ NoTimerFlush
    /\ C5_ExactlyOneFlush

\* ---- C6 --------------------------------------------------------------------
\* C6: an emit whose record is at or above buffer_early_flush_level does not
\* return without calling flush_to_mongo, whatever the buffer length and the
\* capacity; an emit whose record is below it calls flush_to_mongo only with
\* the buffer at capacity.
C6_SeverityTrigger ==
    [][\A t \in Emitters :
          /\ (pc[t] = "trigger" /\ pc'[t] = "idle" /\ exc'[t] = "none")
                => record[t].levelno < buffer_early_flush_level
          /\ (pc[t] = "trigger" /\ pc'[t] = "flush")
                => \/ record[t].levelno >= buffer_early_flush_level
                   \/ Len(buffer) >= buffer_size]_vars

\* a record at the early-flush level, alone in a buffer of large capacity, has
\* made emit call flush_to_mongo
C6_Witness ==
    \E t \in Emitters :
        /\ pc[t] = "flush"
        /\ record[t].levelno >= buffer_early_flush_level
        /\ Len(buffer) = 1
        /\ buffer_size = LargeBufferSize

\* ---- C7 --------------------------------------------------------------------
\* C7: after a failed bulk write, the flush attempts insert_one once for every
\* document of the buffer, those after a failed document included.
C7_FallbackAttemptsAll ==
    \A i \in BulkWrites :
        (~calls[i].ok /\ FlushOver(i)) =>
            \A d \in Range(calls[i].docs) :
                Cardinality({j \in FallbackOf(i) : calls[j].docs = <<d>>}) = 1

\* ---- C8 --------------------------------------------------------------------
\* C8: a failed per-item write is reported exactly when the document's level
\* is not DEBUG.
C8_ReportUnlessDebug ==
    \A i \in DOMAIN calls :
        (calls[i].op = "insert_one" /\ ~calls[i].ok) =>
            LET d == calls[i].docs[1]
                reported == /\ i < Len(calls)
                            /\ calls[i + 1].op = "print"
                            /\ calls[i + 1].docs = <<d>>
            IN (d.level # "DEBUG") <=> reported

\* ---- C9 --------------------------------------------------------------------
Destroys == {i \in DOMAIN calls : calls[i].op = "destroy"}
Closes == {i \in DOMAIN calls : calls[i].op = "close"}

\* C9: destroy called twice does not raise, and the second call writes no
\* document that the first call wrote.
C9_DestroyIdempotent ==
    /\ exc[Main] = "none"
    /\ \A i, j \in Writes :
          (/\ calls[i].by = Main /\ calls[j].by = Main
           /\ calls[i].ok
           /\ \E k \in Destroys : i < k /\ k < j)
              => Range(calls[i].docs) \cap Range(calls[j].docs) = {}

\* ---- C10 -------------------------------------------------------------------
\* the latest of destroy's own calls (entry, close) before call i
LastOfMain(i) ==
    LET before == {k \in Destroys \cup Closes : k < i}
    IN CHOOSE k \in before : \A l \in before : l <= k

\* C10: destroy sets the stop signal, then flushes, then closes; on a handler
\* with a bound collection that no emit touches during or after destroy, every
\* document has been handed to storage before the close, the buffer is empty
\* when destroy returns, and nothing is written after the close.
C10_ShutdownOrder ==
    /\ \A i \in Closes :
          /\ \E k \in Destroys : k < i
          /\ LastOfMain(i) \in Destroys
          /\ timer_stopper => calls[LastOfMain(i) + 1].op = "set"
    /\ \A w \in Writes :
          calls[w].by = Main =>
              /\ \E k \in Destroys : k < w
              /\ LastOfMain(w) \in Destroys
    /\ (collection /\ Closes # {}) =>
          \A m \in 1..nrec : \E w \in Writes :
              /\ \A i \in Closes : w < i
              /\ \E d \in Range(calls[w].docs) : d.message = m
    /\ (collection /\ ndestroy > 0 /\ pc[Main] = "idle" /\ exc[Main] = "none") =>
          (has_buffer /\ buffer = <<>>)
    /\ \A i \in Closes, w \in Writes : w < i

\* destroy has stopped the timer, written the residual documents and closed
C10_Witness ==
    /\ collection /\ timer_stopper
    /\ pc[Main] = "idle" /\ exc[Main] = "none"
    /\ Closes # {}
    /\ \E w \in BulkWrites : calls[w].by = Main /\ Len(calls[w].docs) = BufferSize
    /\ has_buffer /\ buffer = <<>>

\* a handler shut down when it is quiet, every thread that can run being run
FairShutdown == SpecShutdown /\ Fairness

\* ---- MongoHandler.emit (the unbuffered handler) ----------------------------
\* if self.collection is not None: ... ; otherwise emit is over at once
MongoHandlerEmit(t, lvl) ==
    /\ pc[t] = "idle"
    /\ nrec < MaxRecords
    /\ nrec' = nrec + 1
    /\ LET r == [msg |-> nrec + 1, levelno |-> LevelNo[lvl], levelname |-> lvl,
                 thread |-> t]
       IN IF collection
          THEN /\ record' = [record EXCEPT ![t] = r]
               /\ pc' = [pc EXCEPT ![t] = "try"]
          ELSE /\ record' = record
               /\ pc' = pc
    /\ UNCHANGED <<config, buffer, has_buffer, buffer_lock, last_record, stopped,
                   idx, exc, ndestroy, calls>>

\* handleError called whatever self.fail_silently is
MongoHandlerInsert_AlwaysReports(t, ok) ==
    /\ pc[t] = "try"
    /\ calls' = Append(calls, Call("insert_one", t, <<format(record[t])>>, ok))
    /\ pc' = [pc EXCEPT ![t] = IF ok THEN "idle" ELSE "handleError"]
    /\ record' = IF ok THEN Forget(t) ELSE record
    /\ UNCHANGED <<config, buffer, has_buffer, buffer_lock, last_record, stopped,
                   idx, exc, nrec, ndestroy>>

\* try: self.collection.insert_one(self.format(record))
\* except Exception: if not self.fail_silently: (handleError is next)
MongoHandlerInsert(t, ok) ==
    /\ pc[t] = "try"
    /\ calls' = Append(calls, Call("insert_one", t, <<format(record[t])>>, ok))
    /\ LET over == ok \/ fail_silently
       IN /\ pc' = [pc EXCEPT ![t] = IF over THEN "idle" ELSE "handleError"]
          /\ record' = IF over THEN Forget(t) ELSE record
    /\ UNCHANGED <<config, buffer, has_buffer, buffer_lock, last_record, stopped,
                   idx, exc, nrec, ndestroy>>

\* self.handleError(record): logging reports the exception and returns
MongoHandlerHandleError(t) ==
    /\ pc[t] = "handleError"
    /\ calls' = Append(calls, Call("handleError", t, <<format(record[t])>>, TRUE))
    /\ pc' = [pc EXCEPT ![t] = "idle"]
    /\ record' = Forget(t)
    /\ UNCHANGED <<config, buffer, has_buffer, buffer_lock, last_record, stopped,
                   idx, exc, nrec, ndestroy>>

\* a MongoHandler: no buffer, no timer thread, no destroy
InitMongoHandler ==
    /\ \E c \in Connected : /\ collection = c.collection
                             /\ fail_silently = c.fail_silently
    /\ timer_stopper = FALSE
    /\ buffer_size = BufferSize
    /\ buffer = <<>>
    /\ has_buffer = TRUE
    /\ buffer_lock = Free
    /\ last_record = NoRecord
    /\ stopped = FALSE
    /\ pc = [t \in Threads |-> IF t = Timer THEN "none" ELSE "idle"]
    /\ record = [t \in Emitters |-> NoRecord]
    /\ idx = 0
    /\ exc = [t \in Threads |-> "none"]
    /\ nrec = 0
    /\ ndestroy = 0
    /\ calls = <<>>

NextMongoHandler ==
    \/ \E t \in Emitters, lvl \in LevelNames : MongoHandlerEmit(t, lvl)
    \/ \E t \in Emitters, ok \in Outcomes : MongoHandlerInsert(t, ok)
    \/ \E t \in Emitters : MongoHandlerHandleError(t)

SpecMongoHandler == InitMongoHandler /\ [][NextMongoHandler]_vars

\* ---- a handler whose storage answers every write ---------------------------
\* a bound collection, any capacity from 1 on, with or without timer thread
InitSteady ==
    /\ collection = TRUE
    /\ fail_silently = FALSE
    /\ timer_stopper \in BOOLEAN
    /\ buffer_size \in 1..BufferSize
    /\ buffer = <<>>
    /\ has_buffer = TRUE
    /\ buffer_lock = Free
    /\ last_record = NoRecord
    /\ stopped = FALSE
    /\ pc = [t \in Threads |->
               IF t = Timer THEN TimerThread(timer_stopper) ELSE "idle"]
    /\ record = [t \in Emitters |-> NoRecord]
    /\ idx = 0
    /\ exc = [t \in Threads |-> "none"]
    /\ nrec = 0
    /\ ndestroy = 0
    /\ calls = <<>>

\* insert_many never raises, so the per-item fallback is never entered
NextSteady ==
    \/ \E t \in Emitters, lvl \in LevelNames : EmitAppend(t, lvl)
    \/ \E t \in Emitters : EmitTrigger(t)
    \/ \E t \in Threads : FlushBulk(t, TRUE)
    \/ \E t \in Threads : EmptyDel(t)
    \/ \E t \in Threads : EmptyAssign(t)
    \/ TimerTick
    \/ TimerExit
    \/ DestroyStop
    \/ Close

SpecSteady == InitSteady /\ [][NextSteady]_vars

\* ---- a handler with a document already waiting ------------------------------
\* the record of an emit that returned before the run starts, below capacity
\* and below the early-flush level
Backlog == [msg |-> 0, levelno |-> LevelNo.INFO, levelname |-> "INFO",
            thread |-> <<"emitter", 1>>]

\* the state after that emit: its document in the buffer, nothing flushed yet
InitBacklog ==
    /\ collection = TRUE
    /\ fail_silently = FALSE
    /\ timer_stopper \in BOOLEAN
    /\ buffer_size \in {BufferSize, LargeBufferSize}
    /\ buffer = <<format(Backlog)>>
    /\ has_buffer = TRUE
    /\ buffer_lock = Free
    /\ last_record = Backlog
    /\ stopped = FALSE
    /\ pc = [t \in Threads |->
               IF t = Timer THEN TimerThread(timer_stopper) ELSE "idle"]
    /\ record = [t \in Emitters |-> NoRecord]
    /\ idx = 0
    /\ exc = [t \in Threads |-> "none"]
    /\ nrec = 0
    /\ ndestroy = 0
    /\ calls = <<>>

\* in use: emits and periodic flushes
SpecBacklog == InitBacklog /\ [][NextEmit]_vars

\* ---- C11 -------------------------------------------------------------------
\* the timer thread has ended: its loop was left, or an exception ended it
TimerEnded == pc[Timer] \in {"exited", "dead"}

\* the bulk writes of the timer thread made after the stop signal was set
TimerWritesAfterStop ==
    {i \in BulkWrites : calls[i].by = Timer /\ \E k \in DOMAIN calls :
                            k < i /\ calls[k].op = "set"}

\* C11: once the stop signal is set the timer thread eventually ends; after
\* the signal it starts no new round (at most the flush whose wait had
\* already returned runs), and once ended it stays ended.
C11_SchedulerCancellation ==
    /\ stopped ~> TimerEnded
    /\ [][/\ (stopped /\ pc[Timer] = "wait") => pc'[Timer] # "flush"
          /\ TimerEnded => pc'[Timer] = pc[Timer]
          /\ Cardinality(TimerWritesAfterStop') <= 1]_vars

\* the one flush after the signal: the timer wrote after the stop signal was
\* set, and has ended
C11_Witness ==
    /\ stopped
    /\ pc[Timer] = "exited"
    /\ Cardinality(TimerWritesAfterStop) = 1

\* ---- C12 -------------------------------------------------------------------
\* no thread but an emitter or destroy's caller takes part in anything
NoPeriodicTask ==
    /\ pc[Timer] = "none"
    /\ \A i \in DOMAIN calls : calls[i].by # Timer

\* every document appended so far is still in the buffer, in order
AllStillBuffered ==
    /\ Len(buffer) = nrec
    /\ \A i \in 1..nrec : buffer[i].message = i

\* C12: with buffer_periodical_flush_timing zero or None there is no timer
\* thread; an emit calls flush only on capacity or severity; the buffer loses
\* documents only in the flush of an emit or of destroy; and while destroy
\* was not called, capacity not reached and no record at the early-flush
\* level, every appended document is still in the buffer.
C12_NoTimerNoDrain ==
    [][~timer_stopper =>
        /\ NoPeriodicTask'
        /\ \A t \in Emitters : (pc[t] = "trigger" /\ pc'[t] = "flush") =>
              \/ Len(buffer) >= buffer_size
              \/ record[t].levelno >= buffer_early_flush_level
        /\ Len(buffer') < Len(buffer) =>
              \E t \in Emitters \cup {Main} : pc[t] = "del" /\ pc'[t] = "assign"
        /\ ( /\ ndestroy' = 0
             /\ nrec' < buffer_size
             /\ \A d \in Appended' : BelowEarlyFlush(d) ) => AllStillBuffered'
      ]_vars

\* two documents below capacity and below the early-flush level sit in the
\* buffer after their emits returned, no timer existing
C12_Witness ==
    /\ ~timer_stopper
    /\ ndestroy = 0
    /\ \A t \in Emitters : pc[t] = "idle"
    /\ Len(buffer) = MaxRecords
    /\ Len(buffer) < buffer_size
    /\ calls = <<>>

\* ---- C13 -------------------------------------------------------------------
\* a step in which thread t goes through flush_to_mongo with nothing to do
NoOpFlush(t) ==
    /\ pc[t] = "flush"
    /\ pc'[t] # "flush"
    /\ ~collection \/ Len(buffer) = 0

\* C13: a flush_to_mongo that finds the collection unbound or the buffer
\* empty makes no storage call, raises nothing, returns to its caller and
\* leaves the buffer, last_record and the lock as they were; no bulk write
\* ever carries an empty batch.
C13_NoOpFlush ==
    [][ /\ \A t \in Threads : NoOpFlush(t) =>
              /\ calls' = calls
              /\ exc' = exc
              /\ pc'[t] = AfterFlush(t)
              /\ buffer' = buffer
              /\ has_buffer' = has_buffer
              /\ last_record' = last_record
              /\ buffer_lock' = buffer_lock
        /\ \A i \in BulkWrites' : calls'[i].docs # <<>>
      ]_vars

\* destroy's flush found a filled buffer and no collection: it went on to
\* close with the buffer kept and nothing written
C13_Witness ==
    /\ ~collection
    /\ pc[Main] = "close"
    /\ buffer # <<>>
    /\ last_record # NoRecord
    /\ calls = <<Call("destroy", Main, <<>>, TRUE)>>

\* ---- C14 -------------------------------------------------------------------
\* the calls of operation op made for record m
CallsFor(op, m) ==
    {i \in DOMAIN calls : calls[i].op = op /\ calls[i].docs[1].message = m}

\* the emit call of record m is over
EmitOver(m) == m <= nrec /\ \A t \in Emitters : record[t].msg # m

\* C14: MongoHandler.emit raises nothing; with no collection it calls
\* nothing; with a collection it makes exactly one insert_one per record;
\* handleError is called exactly once for a record whose insert failed when
\* fail_silently is unset, and never otherwise.
C14_UnbufferedEmit ==
    /\ \A t \in Threads : exc[t] = "none"
    /\ ~collection => calls = <<>>
    /\ \A i \in DOMAIN calls : calls[i].op \in {"insert_one", "handleError"}
    /\ \A m \in 1..MaxRecords :
          LET ins == CallsFor("insert_one", m)
              rep == CallsFor("handleError", m)
              failed == \E i \in ins : ~calls[i].ok
          IN /\ Cardinality(ins) <= 1
             /\ Cardinality(rep) <= 1
             /\ rep # {} => failed /\ ~fail_silently
             /\ \A i \in ins, j \in rep : i < j
             /\ (EmitOver(m) /\ collection) =>
                   /\ Cardinality(ins) = 1
                   /\ (failed /\ ~fail_silently) => Cardinality(rep) = 1

\* a failed insert reported with fail_silently unset, every emit being over
C14_Witness ==
    /\ \A t \in Emitters : pc[t] = "idle"
    /\ nrec = MaxRecords
    /\ ~fail_silently
    /\ \E i \in CallsFor("insert_one", 1) : ~calls[i].ok
    /\ CallsFor("handleError", 1) # {}

\* ---- C15 -------------------------------------------------------------------
\* the threads between the emptiness test of flush_to_mongo and the end of
\* empty_buffer
Draining == {t \in Threads : pc[t] \in InFlush}

\* at most one thread drains, and it holds the lock
OneDrain ==
    /\ Cardinality(Draining) <= 1
    /\ \A t \in Draining : buffer_lock = t

\* no document is in the batches of two flushes
DisjointFlushes ==
    \A i, j \in BulkWrites :
        i # j => Range(calls[i].docs) \cap Range(calls[j].docs) = {}

\* C15: at most one flush is between its emptiness test and its buffer
\* replacement, no record is appended while one is, and the batches of two
\* flushes share no document.
C15_OneDrainAtATime ==
    [][ /\ OneDrain'
        /\ Draining # {} => (nrec' = nrec /\ last_record' = last_record)
        /\ DisjointFlushes' ]_vars

\* the part of C15 that the lock gives
C15_MutualExclusion ==
    [][ /\ OneDrain'
        /\ Draining # {} => (nrec' = nrec /\ last_record' = last_record) ]_vars

\* ---- C16 -------------------------------------------------------------------
\* C16: when emit evaluates its trigger, after the lock is released, the
\* buffer attribute exists and the evaluation raises nothing, whatever a
\* flush on another thread is doing.
C16_TriggerSeesBuffer ==
    [][\A t \in Emitters : (pc[t] = "trigger" /\ pc'[t] # "trigger") =>
            /\ has_buffer
            /\ exc'[t] = "none"]_vars

\* ---- C17 -------------------------------------------------------------------
\* the document of record m is in the buffer
InBuffer(m) == \E i \in DOMAIN buffer : buffer[i].message = m

\* C17: with a timer thread and a bound collection, a document in the buffer
\* eventually leaves it.
C17_EventuallyDrained ==
    \A m \in 1..MaxRecords :
        (timer_stopper /\ collection /\ InBuffer(m)) ~> ~InBuffer(m)

\* C17 but for the runs in which a flush was ended by the KeyError
C17_DrainedUnlessKeyError ==
    \A m \in 1..MaxRecords :
        (timer_stopper /\ collection /\ InBuffer(m)) ~>
            (~InBuffer(m) \/ \E t \in Threads : exc[t] = "KeyError")

\* ---- C18 -------------------------------------------------------------------
\* the timer thread is in its loop: waiting, or inside func()
TimerInLoop == pc[Timer] \in {"wait", "flush"} \cup InFlush

\* C18: as long as the stop signal is not set, the timer thread is in its
\* loop, whatever the storage answered to its flushes.
C18_TimerSurvivesFailure == (timer_stopper /\ ~stopped) => TimerInLoop

\* ---- C19 -------------------------------------------------------------------
\* a sequence of documents in the order of their appends (record numbers are
\* given under the lock, in the order of the appends)
InAppendOrder(docs) ==
    \A a, b \in DOMAIN docs : a < b => docs[a].message < docs[b].message

\* the per-item writes of the flush of bulk write i go through its batch
\* from the first document on, one call each
FallbackInOrder(i) ==
    LET F == FallbackOf(i)
        rank(j) == Cardinality({k \in F : k <= j})
    IN /\ Cardinality(F) <= Len(calls[i].docs)
       /\ \A j \in F : calls[j].docs = <<calls[i].docs[rank(j)]>>

\* the flushes of bulk writes i < j: the earlier one made all its calls
\* before j, and what j has that i had not was appended after all of i
FlushesInOrder(i, j) ==
    /\ \A k \in FallbackOf(i) : k < j
    /\ \A d \in Range(calls[i].docs), e \in Range(calls[j].docs) :
          e \notin Range(calls[i].docs) => d.message < e.message

\* the order inside a flush and between the attempts of two flushes
C19_FlushOrder ==
    /\ InAppendOrder(buffer)
    /\ \A i \in BulkWrites : InAppendOrder(calls[i].docs) /\ FallbackInOrder(i)
    /\ \A i, j \in BulkWrites : i < j => FlushesInOrder(i, j)

\* the documents storage accepted, taken call after call, never go back in
\* append order
WrittenInAppendOrder ==
    \A i, j \in Writes : (i < j /\ calls[i].ok /\ calls[j].ok) =>
        \A d \in Range(calls[i].docs), e \in Range(calls[j].docs) :
            d.message <= e.message

\* C19: documents reach storage in append order: the buffer and every bulk
\* batch are in append order; a per-item fallback follows its batch in
\* order; an earlier flush makes all its attempts before a later one, whose
\* new documents were appended later; what storage accepts never goes back
\* in append order.
C19_AppendOrder == C19_FlushOrder /\ WrittenInAppendOrder

\* ---- C20 -------------------------------------------------------------------
\* the emitting threads inside an emit call
Emitting == {t \in Emitters : pc[t] # "idle"}

\* no emit call and no flush_to_mongo call is in progress
Quiet ==
    /\ Emitting = {}
    /\ pc[Timer] \notin {"flush"} \cup InFlush
    /\ pc[Main] \notin {"flush"} \cup InFlush

\* C20: with a bound collection and writes that succeed, the buffer holds at
\* most buffer_size - 1 documents plus one for each thread inside emit, hence
\* never more than buffer_size - 1 + K for K emitting threads, and fewer than
\* buffer_size when no emit or flush is in progress.
C20_BufferBound ==
    /\ Len(buffer) <= buffer_size - 1 + Cardinality(Emitting)
    /\ Len(buffer) <= buffer_size - 1 + NumEmitters
    /\ Quiet => Len(buffer) < buffer_size

\* the bound is met: every thread has appended, none has flushed yet
C20_Witness ==
    /\ Len(buffer) = buffer_size - 1 + NumEmitters
    /\ Emitting = Emitters

=============================================================================
